---- MODULE Spec2Model ----
(***************************************************************************)
(* A model of the Contextualizer of rexlx/parser (src/parser.go): the      *)
(* pattern table, the ignore sets built by NewContextualizer, the          *)
(* single-kind matcher GetMatches, the multi-kind extractor ExtractAll     *)
(* and the domain-ignore check.  Strings are sequences of one-character    *)
(* strings; the regular expressions of the pattern table are modelled by   *)
(* matchers that give, for a start position, the end of the leftmost-first *)
(* match the regexp package reports there.                                 *)
(***************************************************************************)
EXTENDS Integers, Sequences, FiniteSets, TLC

VARIABLES
    argDomains,        \* NewContextualizer's ignoreDomains argument
    argEmails,         \* NewContextualizer's ignoreEmails argument
    IgnorePrivateIPs,  \* Checks.IgnorePrivateIPs
    IgnoredDomains,    \* Checks.IgnoredDomains (keys of the map)
    IgnoredEmails,     \* Checks.IgnoredEmails (keys of the map)
    text,              \* the text argument of GetMatches / ExtractAll
    pc,                \* which operation has run
    kindArg,           \* GetMatches: the kind argument
    matches,           \* GetMatches: the returned slice
    results,           \* ExtractAll: the results map (absent key = <<>>)
    urlRanges,         \* ExtractAll: the claimed ranges
    todo,              \* ExtractAll: kinds the range loop has not visited yet
    domainArg,         \* isDomainIgnored: the argument
    ignoredRet         \* isDomainIgnored: the returned value

vars == <<argDomains, argEmails, IgnorePrivateIPs, IgnoredDomains, IgnoredEmails,
          text, pc, kindArg, matches, results, urlRanges, todo, domainArg, ignoredRet>>

(***************************************************************************)
(* Strings and character classes.                                          *)
(***************************************************************************)
Chars(s) == [i \in 1..Len(s) |-> SubSeq(s, i, i)]

UpperSeq == Chars("ABCDEFGHIJKLMNOPQRSTUVWXYZ")
LowerSeq == Chars("abcdefghijklmnopqrstuvwxyz")
Upper == {UpperSeq[i] : i \in 1..Len(UpperSeq)}
Lower == {LowerSeq[i] : i \in 1..Len(LowerSeq)}
Digit == {"0", "1", "2", "3", "4", "5", "6", "7", "8", "9"}
Letter == Lower \cup Upper
WordChar == Letter \cup Digit \cup {"_"}
HexChar == Digit \cup {"a", "b", "c", "d", "e", "f", "A", "B", "C", "D", "E", "F"}
Space == {" ", "\t", "\n", "\r", "\f"}

LowerOf == [c \in Upper |-> LowerSeq[CHOOSE i \in 1..Len(UpperSeq) : UpperSeq[i] = c]]

\* strings.ToLower
ToLower(s) == [i \in 1..Len(s) |-> IF s[i] \in Upper THEN LowerOf[s[i]] ELSE s[i]]

\* strings.HasPrefix
HasPrefix(s, p) == Len(s) >= Len(p) /\ SubSeq(s, 1, Len(p)) = p

\* strings.HasSuffix
HasSuffix(s, p) == Len(s) >= Len(p) /\ SubSeq(s, Len(s) - Len(p) + 1, Len(s)) = p

\* strings.TrimPrefix
TrimPrefix(s, p) == IF HasPrefix(s, p) THEN SubSeq(s, Len(p) + 1, Len(s)) ELSE s

\* strings.TrimSuffix
TrimSuffix(s, p) == IF HasSuffix(s, p) THEN SubSeq(s, 1, Len(s) - Len(p)) ELSE s

\* strings.TrimRight(s, cutset): every trailing character of the cutset goes
RECURSIVE TrimRight(_, _)
TrimRight(s, cutset) ==
    IF Len(s) > 0 /\ s[Len(s)] \in cutset
    THEN TrimRight(SubSeq(s, 1, Len(s) - 1), cutset)
    ELSE s

\* strings.Index(s, c) for a one-character c, 0-based, -1 as Go's "absent" is 0 - 1
IndexSet(s, c) == {i \in 1..Len(s) : s[i] = c}
Min(S) == CHOOSE x \in S : \A y \in S : x <= y
Max(S) == CHOOSE x \in S : \A y \in S : x >= y

\* the length of the longest run of characters of class C that starts at t[i]
RECURSIVE RunLen(_, _, _)
RunLen(t, i, C) ==
    IF i > Len(t) \/ t[i] \notin C THEN 0 ELSE 1 + RunLen(t, i + 1, C)

\* \b after a word character that ends at position e (1-based, inclusive)
BoundaryAfter(t, e) == e >= Len(t) \/ t[e + 1] \notin WordChar

\* \b before a word character that starts at position i
BoundaryBefore(t, i) == i = 1 \/ t[i - 1] \notin WordChar

\* the same for the characters outside class C
RECURSIVE RunLenNot(_, _, _)
RunLenNot(t, i, C) ==
    IF i > Len(t) \/ t[i] \in C THEN 0 ELSE 1 + RunLenNot(t, i + 1, C)

\* t[i] = c, false past the end of t
CharAt(t, i, c) == i >= 1 /\ i <= Len(t) /\ t[i] = c

\* t holds p at position i, letter case ignored ((?i) on a literal)
FoldedAt(t, i, p) ==
    i + Len(p) - 1 <= Len(t) /\ ToLower(SubSeq(t, i, i + Len(p) - 1)) = p

(***************************************************************************)
(* The pattern table.  Each matcher gives the end (1-based, inclusive:     *)
(* Go's end offset) of the match that starts at position i of t, or 0.     *)
(* Greedy repetitions are tried longest first, as the regexp package's     *)
(* leftmost-first semantics has it.                                        *)
(***************************************************************************)
HashLenMd5 == 32
HashLenSha1 == 40
HashLenSha256 == 64
HashLenSha512 == 128

\* (?i)\b([a-f\d]{n})\b
HashAt(t, i, n) ==
    IF /\ RunLen(t, i, HexChar) = n
       /\ BoundaryBefore(t, i)
       /\ BoundaryAfter(t, i + n - 1)
    THEN i + n - 1 ELSE 0

\* (\d{1,3}\.\d{1,3}\.\d{1,3}\.\d{1,3})
Ipv4At(t, i) ==
    LET d1 == RunLen(t, i, Digit)
        p2 == i + d1 + 1
        d2 == RunLen(t, p2, Digit)
        p3 == p2 + d2 + 1
        d3 == RunLen(t, p3, Digit)
        p4 == p3 + d3 + 1
        d4 == RunLen(t, p4, Digit)
    IN  IF /\ d1 \in 1..3 /\ CharAt(t, i + d1, ".")
           /\ d2 \in 1..3 /\ CharAt(t, p2 + d2, ".")
           /\ d3 \in 1..3 /\ CharAt(t, p3 + d3, ".")
           /\ d4 >= 1
        THEN p4 + (IF d4 > 3 THEN 3 ELSE d4) - 1 ELSE 0

\* (?i)([a-f\d]{4}(:[a-f\d]{4}){7})
Ipv6At(t, i) ==
    IF /\ i + 38 <= Len(t)
       /\ \A g \in 0..7 :
            /\ \A j \in 0..3 : t[i + 5 * g + j] \in HexChar
            /\ g > 0 => t[i + 5 * g - 1] = ":"
    THEN i + 38 ELSE 0

EmailLocalClass == Letter \cup Digit \cup {".", "_", "%", "+", "-"}
DomainClass == Letter \cup Digit \cup {".", "-"}
PathClass == Letter \cup Digit \cup {".", "-"}
FileClass == WordChar \cup {"-", "."}

\* (?i)([a-z0-9._%+-]+@[a-z0-9.-]+\.[a-z]{2,})
EmailAt(t, i) ==
    LET r1 == RunLen(t, i, EmailLocalClass)
        j  == i + r1 + 1
        r2 == RunLen(t, j, DomainClass)
        ks == {k \in 1..(r2 - 1) :
                 t[j + k] = "." /\ RunLen(t, j + k + 1, Letter) >= 2}
    IN  IF r1 >= 1 /\ CharAt(t, i + r1, "@") /\ ks # {}
        THEN j + Max(ks) + RunLen(t, j + Max(ks) + 1, Letter) ELSE 0

\* (?i)((https?|ftp):\/\/[^\s/$.?#].[^\s]*), from the "://" at position j on
UrlTailAt(t, j) ==
    IF /\ FoldedAt(t, j, Chars("://"))
       /\ j + 4 <= Len(t)
       /\ t[j + 3] \notin (Space \cup {"/", "$", ".", "?", "#"})
       /\ t[j + 4] # "\n"
    THEN j + 4 + RunLenNot(t, j + 5, Space) ELSE 0

\* the alternatives of (https?|ftp) in the order the matcher prefers them
UrlSchemes == <<Chars("https"), Chars("http"), Chars("ftp")>>

UrlAt(t, i) ==
    LET ends == [n \in 1..Len(UrlSchemes) |->
                    IF FoldedAt(t, i, UrlSchemes[n])
                    THEN UrlTailAt(t, i + Len(UrlSchemes[n])) ELSE 0]
        hit == {n \in 1..Len(UrlSchemes) : ends[n] # 0}
    IN  IF hit = {} THEN 0 ELSE ends[Min(hit)]

\* (?i)([a-z0-9.-]+\.[a-z]{2,24})\b
DomainAt(t, i) ==
    LET r  == RunLen(t, i, DomainClass)
        ks == {k \in 1..(r - 1) :
                 /\ t[i + k] = "."
                 /\ LET n == RunLen(t, i + k + 1, Letter)
                    IN  n >= 2 /\ n <= 24 /\ BoundaryAfter(t, i + k + n)}
    IN  IF ks = {} THEN 0
        ELSE i + Max(ks) + RunLen(t, i + Max(ks) + 1, Letter)

\* ([a-zA-Z0-9.-]+\/[a-zA-Z0-9.-]+)
FilepathAt(t, i) ==
    LET r1 == RunLen(t, i, PathClass)
        r2 == RunLen(t, i + r1 + 1, PathClass)
    IN  IF r1 >= 1 /\ CharAt(t, i + r1, "/") /\ r2 >= 1
        THEN i + r1 + r2 ELSE 0

\* ^[\w\-.]+\.[a-zA-Z]{2,4}$
FilenameAt(t, i) ==
    IF /\ i = 1
       /\ \E m \in 2..4 :
            /\ Len(t) - m - 1 >= 1
            /\ t[Len(t) - m] = "."
            /\ \A j \in 1..(Len(t) - m - 1) : t[j] \in FileClass
            /\ \A j \in (Len(t) - m + 1)..Len(t) : t[j] \in Letter
    THEN Len(t) ELSE 0

Kinds == {"md5", "sha1", "sha256", "sha512", "ipv4", "ipv6", "email", "url",
          "domain", "filepath", "filename"}

\* Contextualizer.Expressions: a compiled pattern is named by its kind
Expressions == [k \in Kinds |-> k]

MatchAt(regex, t, i) ==
    CASE regex = "md5"      -> HashAt(t, i, HashLenMd5)
      [] regex = "sha1"     -> HashAt(t, i, HashLenSha1)
      [] regex = "sha256"   -> HashAt(t, i, HashLenSha256)
      [] regex = "sha512"   -> HashAt(t, i, HashLenSha512)
      [] regex = "ipv4"     -> Ipv4At(t, i)
      [] regex = "ipv6"     -> Ipv6At(t, i)
      [] regex = "email"    -> EmailAt(t, i)
      [] regex = "url"      -> UrlAt(t, i)
      [] regex = "domain"   -> DomainAt(t, i)
      [] regex = "filepath" -> FilepathAt(t, i)
      [] regex = "filename" -> FilenameAt(t, i)

\* regexp.FindAllStringIndex(text, -1): the non-overlapping matches left to
\* right, each <<start, end>> with Go's 0-based, half-open offsets
RECURSIVE FindFrom(_, _, _)
FindFrom(regex, t, i) ==
    IF i > Len(t) THEN <<>>
    ELSE LET e == MatchAt(regex, t, i)
         IN  IF e = 0 THEN FindFrom(regex, t, i + 1)
             ELSE <<<<i - 1, e>>>> \o FindFrom(regex, t, e + 1)

FindAllStringIndex(regex, t) == FindFrom(regex, t, 1)

\* text[idx[0]:idx[1]]
Slice(t, idx) == SubSeq(t, idx[1] + 1, idx[2])

\* regexp.FindAllString(text, -1)
FindAllString(regex, t) ==
    LET ix == FindAllStringIndex(regex, t)
    IN  [n \in 1..Len(ix) |-> Slice(t, ix[n])]

(***************************************************************************)
(* The library calls of src/parser.go, for the characters the texts hold   *)
(* (no '%' escapes, no bracketed IPv6 hosts).                              *)
(***************************************************************************)
\* strings.Split(s, c) for a one-character separator
RECURSIVE Split(_, _)
Split(s, c) ==
    LET at == IndexSet(s, c)
    IN  IF at = {} THEN <<s>>
        ELSE <<SubSeq(s, 1, Min(at) - 1)>> \o Split(SubSeq(s, Min(at) + 1, Len(s)), c)

\* the part of s before the first c, and the part after it (strings.Cut)
Before(s, c) == IF IndexSet(s, c) = {} THEN s ELSE SubSeq(s, 1, Min(IndexSet(s, c)) - 1)
After(s, c) == IF IndexSet(s, c) = {} THEN <<>> ELSE SubSeq(s, Min(IndexSet(s, c)) + 1, Len(s))

SchemeTail == Digit \cup {"+", "-", "."}
CtlChar == {"\t", "\n", "\r", "\f"}
HostChar == Letter \cup Digit \cup
            {"!", "$", "&", "'", "(", ")", "*", "+", ",", ";", "=", ":", "[", "]",
             "<", ">", "-", "_", ".", "~"}
UserinfoChar == Letter \cup Digit \cup
                {"-", ".", "_", ":", "~", "!", "$", "&", "'", "(", ")", "*", "+",
                 ",", ";", "=", "%", "@"}

\* net/url getScheme: [ok, scheme, rest]
GetScheme(raw) ==
    LET n == RunLen(raw, 1, Letter \cup SchemeTail)
    IN  IF raw # <<>> /\ raw[1] \in SchemeTail
        THEN [ok |-> TRUE, scheme |-> <<>>, rest |-> raw]
        ELSE IF CharAt(raw, n + 1, ":")
        THEN IF n = 0
             THEN [ok |-> FALSE, scheme |-> <<>>, rest |-> <<>>]
             ELSE [ok |-> TRUE, scheme |-> SubSeq(raw, 1, n),
                   rest |-> SubSeq(raw, n + 2, Len(raw))]
        ELSE [ok |-> TRUE, scheme |-> <<>>, rest |-> raw]

\* net/url validOptionalPort: "" or ":" and digits
ValidOptionalPort(port) ==
    \/ port = <<>>
    \/ port[1] = ":" /\ \A i \in 2..Len(port) : port[i] \in Digit

\* net/url parseAuthority: [ok, host]
ParseAuthority(authority) ==
    LET ats  == IndexSet(authority, "@")
        host == IF ats = {} THEN authority
                ELSE SubSeq(authority, Max(ats) + 1, Len(authority))
        user == IF ats = {} THEN <<>> ELSE SubSeq(authority, 1, Max(ats) - 1)
        cols == IndexSet(host, ":")
    IN  IF /\ cols # {} => ValidOptionalPort(SubSeq(host, Max(cols), Len(host)))
           /\ \A i \in 1..Len(host) : host[i] \in HostChar
           /\ \A i \in 1..Len(user) : user[i] \in UserinfoChar
        THEN [ok |-> TRUE, host |-> host]
        ELSE [ok |-> FALSE, host |-> <<>>]

\* url.Parse: [ok, host] with host the URL's Host field
Parse(rawURL) ==
    LET u    == Before(rawURL, "#")
        sch  == GetScheme(u)
        rest == Before(sch.rest, "?")
        auth == Before(SubSeq(rest, 3, Len(rest)), "/")
    IN  IF \E i \in 1..Len(u) : u[i] \in CtlChar
        THEN [ok |-> FALSE, host |-> <<>>]
        ELSE IF ~sch.ok
        THEN [ok |-> FALSE, host |-> <<>>]
        ELSE IF ~HasPrefix(rest, <<"/">>)
        THEN IF sch.scheme # <<>>
             THEN [ok |-> TRUE, host |-> <<>>]
             ELSE [ok |-> ":" \notin {Before(rest, "/")[i] : i \in 1..Len(Before(rest, "/"))},
                   host |-> <<>>]
        ELSE IF HasPrefix(rest, <<"/", "/">>)
                /\ (sch.scheme # <<>> \/ ~HasPrefix(rest, <<"/", "/", "/">>))
        THEN ParseAuthority(auth)
        ELSE [ok |-> TRUE, host |-> <<>>]

\* URL.Hostname: the host without a valid port
Hostname(host) ==
    LET cols == IndexSet(host, ":")
    IN  IF cols # {} /\ ValidOptionalPort(SubSeq(host, Max(cols), Len(host)))
        THEN SubSeq(host, 1, Max(cols) - 1) ELSE host

\* the decimal value of a string of digits
DigitSeq == Chars("0123456789")
DigitVal(c) == (CHOOSE i \in 1..Len(DigitSeq) : DigitSeq[i] = c) - 1
RECURSIVE Atoi(_)
Atoi(s) == IF s = <<>> THEN 0 ELSE 10 * Atoi(SubSeq(s, 1, Len(s) - 1)) + DigitVal(s[Len(s)])

\* net.ParseIP on a dotted literal: the four octets, or <<>> for nil.  A field
\* is 1 to 3 digits, at most 255, and no leading zero
ParseIP(ipStr) ==
    LET f  == Split(ipStr, ".")
        ok == /\ Len(f) = 4
              /\ \A n \in 1..4 :
                   /\ Len(f[n]) \in 1..3
                   /\ \A i \in 1..Len(f[n]) : f[n][i] \in Digit
                   /\ Len(f[n]) > 1 => f[n][1] # "0"
                   /\ Atoi(f[n]) <= 255
    IN  IF ok THEN [n \in 1..4 |-> Atoi(f[n])] ELSE <<>>

\* IP.IsPrivate, IP.IsLoopback, IP.IsLinkLocalUnicast for an IPv4 address
IsPrivate(ip) ==
    \/ ip[1] = 10
    \/ ip[1] = 172 /\ ip[2] \in 16..31
    \/ ip[1] = 192 /\ ip[2] = 168
IsLoopback(ip) == ip[1] = 127
IsLinkLocalUnicast(ip) == ip[1] = 169 /\ ip[2] = 254

\* isPrivateIP that takes a literal it cannot parse for private
isPrivateIPFailClosed(ipStr) ==
    LET ip == ParseIP(ipStr)
    IN  IF ip = <<>> THEN TRUE
        ELSE IsPrivate(ip) \/ IsLoopback(ip) \/ IsLinkLocalUnicast(ip)

\* unparseable literals are not private: the candidate is kept
isPrivateIP(ipStr) ==
    LET ip == ParseIP(ipStr)
    IN  IF ip = <<>> THEN FALSE
        ELSE IsPrivate(ip) \/ IsLoopback(ip) \/ IsLinkLocalUnicast(ip)

\* an excerpt of the public suffix list; a name under no rule falls under
\* the default rule "*", its last label
PublicSuffixRules == {Chars("com"), Chars("org"), Chars("uk"), Chars("co.uk")}

\* publicsuffix.PublicSuffix
PublicSuffix(d) ==
    LET at == {i \in 1..Len(d) :
                 /\ i = 1 \/ d[i - 1] = "."
                 /\ SubSeq(d, i, Len(d)) \in PublicSuffixRules}
        dots == IndexSet(d, ".")
    IN  IF at # {} THEN SubSeq(d, Min(at), Len(d))
        ELSE IF dots = {} THEN d
        ELSE SubSeq(d, Max(dots) + 1, Len(d))

\* publicsuffix.EffectiveTLDPlusOne: [ok, value]
EffectiveTLDPlusOne(d) ==
    LET suffix == PublicSuffix(d)
        i      == Len(d) - Len(suffix)
        dots   == IndexSet(SubSeq(d, 1, i - 1), ".")
    IN  IF \/ HasPrefix(d, <<".">>) \/ HasSuffix(d, <<".">>)
           \/ \E n \in 1..(Len(d) - 1) : d[n] = "." /\ d[n + 1] = "."
        THEN [ok |-> FALSE, value |-> <<>>]
        ELSE IF Len(d) <= Len(suffix) \/ d[i] # "."
        THEN [ok |-> FALSE, value |-> <<>>]
        ELSE [ok |-> TRUE,
              value |-> SubSeq(d, (IF dots = {} THEN 0 ELSE Max(dots)) + 1, Len(d))]

extractSecondLevelDomain(d) == EffectiveTLDPlusOne(d)

(***************************************************************************)
(* NewContextualizer and the domain-ignore check.                          *)
(***************************************************************************)
\* the keys of domainMap: each entry without one leading ".", lower-cased
NewIgnoredDomains(ignoreDomains) ==
    {ToLower(TrimPrefix(ignoreDomains[n], <<".">>)) : n \in 1..Len(ignoreDomains)}

\* the keys of emailMap
NewIgnoredEmails(ignoreEmails) ==
    {ToLower(ignoreEmails[n]) : n \in 1..Len(ignoreEmails)}

\* the for loop of isDomainIgnored, from the value current has
RECURSIVE IgnoredFrom(_)
IgnoredFrom(current) ==
    IF current \in IgnoredDomains THEN TRUE
    ELSE IF IndexSet(current, ".") = {} THEN FALSE
    ELSE IgnoredFrom(SubSeq(current, Min(IndexSet(current, ".")) + 1, Len(current)))

\* isDomainIgnored without the lower-casing of its argument
isDomainIgnoredCaseSensitive(d) == IgnoredFrom(TrimSuffix(d, <<".">>))

isDomainIgnored(d) == IgnoredFrom(TrimSuffix(ToLower(d), <<".">>))

(***************************************************************************)
(* GetMatches.                                                             *)
(***************************************************************************)
Match(value, type) == [Value |-> value, Type |-> type]

UrlCutset == {"/", ".", ",", ";", ":"}

\* TrimUrl with the TrimSuffix alone: one trailing "/" goes
TrimUrlSlashOnly(s) == TrimSuffix(s, <<"/">>)

\* strings.TrimSuffix(strings.TrimRight(s, "/.,;:"), "/")
TrimUrl(s) == TrimSuffix(TrimRight(s, UrlCutset), <<"/">>)

\* case "url": the host of the parsed URL is ignored
UrlIgnored(cleanVal) ==
    LET u == Parse(cleanVal)
    IN  u.ok /\ isDomainIgnored(Hostname(u.host))

\* case "filepath" of GetMatches
FilepathSkipped(cleanMatch) ==
    \/ HasPrefix(cleanMatch, Chars("http"))
    \/ HasPrefix(cleanMatch, Chars("www"))
    \/ HasPrefix(cleanMatch, Chars("ftp"))

\* case "filepath" of ExtractAll
FilepathSkippedAll(cleanVal) ==
    \/ HasPrefix(cleanVal, Chars("http"))
    \/ HasPrefix(cleanVal, Chars("www"))

\* case "ipv4"
Ipv4Skipped(val) == IgnorePrivateIPs /\ isPrivateIP(val)

\* EmailSkipped without the check of the address's domain
EmailSkippedAddressOnly(cleanVal) == cleanVal \in IgnoredEmails

\* case "email"
EmailSkipped(cleanVal) ==
    \/ cleanVal \in IgnoredEmails
    \/ LET parts == Split(cleanVal, "@")
       IN  Len(parts) = 2 /\ isDomainIgnored(parts[2])

\* BaseDomainMatches without the test that the base differs from the domain
BaseDomainMatchesAlways(cleanVal) ==
    LET base == extractSecondLevelDomain(cleanVal)
    IN  IF base.ok /\ base.value # <<>> /\ ~isDomainIgnored(base.value)
        THEN <<Match(base.value, "base_domain")>> ELSE <<>>

\* case "domain": the base_domain matches a kept domain adds (none or one)
BaseDomainMatches(cleanVal) ==
    LET base == extractSecondLevelDomain(cleanVal)
    IN  IF /\ base.ok /\ base.value # <<>> /\ base.value # cleanVal
           /\ ~isDomainIgnored(base.value)
        THEN <<Match(base.value, "base_domain")>> ELSE <<>>

\* the switch of GetMatches: TRUE when the candidate is skipped (continue)
Skipped(k, match, cleanMatch) ==
    CASE k = "url"      -> UrlIgnored(cleanMatch)
      [] k = "filepath" -> FilepathSkipped(cleanMatch)
      [] k = "ipv4"     -> Ipv4Skipped(match)
      [] k = "email"    -> EmailSkipped(cleanMatch)
      [] k = "domain"   -> isDomainIgnored(cleanMatch)
      [] OTHER          -> FALSE

\* the loop of GetMatches over ms[n..], with the results and seen so far
RECURSIVE GetMatchesFrom(_, _, _, _, _)
GetMatchesFrom(ms, n, k, res, seen) ==
    IF n > Len(ms) THEN res
    ELSE LET match      == IF k = "url" THEN TrimUrl(ms[n]) ELSE ms[n]
             cleanMatch == ToLower(match)
             finalValue == IF k = "domain" \/ k = "email" THEN cleanMatch ELSE match
             withBase   == IF k = "domain" THEN res \o BaseDomainMatches(cleanMatch)
                           ELSE res
         IN  IF cleanMatch \in seen \/ Skipped(k, match, cleanMatch)
             THEN GetMatchesFrom(ms, n + 1, k, res, seen)
             ELSE IF finalValue # <<>>
             THEN GetMatchesFrom(ms, n + 1, k, Append(withBase, Match(finalValue, k)),
                                 seen \cup {cleanMatch})
             ELSE GetMatchesFrom(ms, n + 1, k, withBase, seen)

GetMatches(t, k, regex) == GetMatchesFrom(FindAllString(regex, t), 1, k, <<>>, {})

(***************************************************************************)
(* ExtractAll.                                                             *)
(***************************************************************************)
ResultKeys == Kinds \cup {"base_domain"}

\* make(map[string][]Match): a key that was never appended to reads as nil
EmptyResults == [k \in ResultKeys |-> <<>>]

\* the URL loop over indices[n..]: [results, urlRanges]
RECURSIVE UrlLoopFrom(_, _, _, _, _, _)
UrlLoopFrom(t, indices, n, res, ranges, seen) ==
    IF n > Len(indices) THEN [results |-> res, urlRanges |-> ranges]
    ELSE LET idx      == indices[n]
             val      == TrimUrl(Slice(t, idx))
             cleanVal == ToLower(val)
         IN  IF UrlIgnored(cleanVal) \/ cleanVal \in seen
             THEN UrlLoopFrom(t, indices, n + 1, res, ranges, seen)
             ELSE UrlLoopFrom(t, indices, n + 1,
                              [res EXCEPT !["url"] = Append(@, Match(val, "url"))],
                              Append(ranges, idx), seen \cup {cleanVal})

UrlPass(t) ==
    UrlLoopFrom(t, FindAllStringIndex(Expressions["url"], t), 1, EmptyResults, <<>>, {})

\* "Basic overlap prevention"
isInsideUrl(idx, ranges) ==
    \E n \in 1..Len(ranges) : idx[1] >= ranges[n][1] /\ idx[2] <= ranges[n][2]

\* the switch of ExtractAll: TRUE when the candidate is skipped (continue)
SkippedAll(k, val, cleanVal) ==
    CASE k = "filepath" -> FilepathSkippedAll(cleanVal)
      [] k = "ipv4"     -> Ipv4Skipped(val)
      [] k = "email"    -> EmailSkipped(cleanVal)
      [] k = "domain"   -> isDomainIgnored(cleanVal)
      [] OTHER          -> FALSE

\* the loop of one kind over rawMatches[n..], with this kind's seen
RECURSIVE KindLoopFrom(_, _, _, _, _, _, _)
KindLoopFrom(t, k, rawMatches, n, res, ranges, seen) ==
    IF n > Len(rawMatches) THEN res
    ELSE LET idx      == rawMatches[n]
             val      == Slice(t, idx)
             cleanVal == ToLower(val)
             withBase == IF k = "domain"
                         THEN [res EXCEPT !["base_domain"] = @ \o BaseDomainMatches(cleanVal)]
                         ELSE res
         IN  IF \/ isInsideUrl(idx, ranges)
                \/ cleanVal \in seen
                \/ SkippedAll(k, val, cleanVal)
             THEN KindLoopFrom(t, k, rawMatches, n + 1, res, ranges, seen)
             ELSE KindLoopFrom(t, k, rawMatches, n + 1,
                               [withBase EXCEPT ![k] = Append(@, Match(val, k))],
                               ranges, seen \cup {cleanVal})

\* KindPass with one seen map for all kinds (declared outside the range loop)
KindPassSharedSeen(t, k, res, ranges) ==
    KindLoopFrom(t, k, FindAllStringIndex(Expressions[k], t), 1, res, ranges,
                 UNION {{ToLower(res[key][n].Value) : n \in 1..Len(res[key])} :
                        key \in Kinds \ {"url"}})

\* one iteration of "for kind, regex := range c.Expressions" (kind # "url")
KindPass(t, k, res, ranges) ==
    KindLoopFrom(t, k, FindAllStringIndex(Expressions[k], t), 1, res, ranges, {})

\* the range loop, the kinds visited in the given order
RECURSIVE RangeLoop(_, _, _, _)
RangeLoop(t, order, res, ranges) ==
    IF order = <<>> THEN res
    ELSE RangeLoop(t, Tail(order), KindPass(t, Head(order), res, ranges), ranges)

ExtractAllIn(t, order) ==
    RangeLoop(t, order, UrlPass(t).results, UrlPass(t).urlRanges)

(***************************************************************************)
(* Inputs.  A text is up to MaxWords words of Words, one space between     *)
(* two words.                                                              *)
(***************************************************************************)
MaxWords == 2

Words ==
    { Chars("http://a.b.com/p,"),
      Chars("HTTP://a.b.com/P"),
      Chars("ftp://8.8.8.8/x"),
      Chars("c.b.com"),
      Chars("A.b.com"),
      Chars("co.uk"),
      Chars("X@b.com"),
      Chars("10.0.0.1,8.8.8.8"),
      Chars("169.254.0.1,10.0.0.999"),
      Chars("ftp.d/q") }

RECURSIVE Join(_)
Join(ws) ==
    IF ws = <<>> THEN <<>>
    ELSE IF Len(ws) = 1 THEN ws[1]
    ELSE ws[1] \o <<" ">> \o Join(Tail(ws))

Texts == {Join(ws) : ws \in UNION {[1..n -> Words] : n \in 0..MaxWords}}

DomainLists == { <<>>, <<Chars(".B.com")>> }
EmailLists == { <<>>, <<Chars("x@B.com")>> }

\* the iteration orders of the range loop the calls draw from: the order of
\* the table's literal and its reverse, so that any two kinds are visited in
\* both relative orders
KindOrder == <<"md5", "sha1", "sha256", "sha512", "ipv4", "ipv6", "email",
               "domain", "filepath", "filename">>
Reverse(q) == [n \in 1..Len(q) |-> q[Len(q) + 1 - n]]
KindOrders == {KindOrder, Reverse(KindOrder)}

(***************************************************************************)
(* The state machine: a Contextualizer is constructed (Init), then one of  *)
(* its operations is called on a text.                                     *)
(***************************************************************************)
Constructed(flags, domainLists, emailLists) ==
    /\ argDomains \in domainLists
    /\ argEmails \in emailLists
    /\ IgnorePrivateIPs \in flags
    /\ IgnoredDomains = NewIgnoredDomains(argDomains)
    /\ IgnoredEmails = NewIgnoredEmails(argEmails)
    /\ pc = "ready"
    /\ kindArg = ""
    /\ matches = <<>>
    /\ results = EmptyResults
    /\ urlRanges = <<>>
    /\ todo = {}
    /\ ignoredRet = FALSE

Init ==
    /\ Constructed(BOOLEAN, DomainLists, EmailLists)
    /\ text \in Texts
    /\ domainArg = <<>>

checks == <<argDomains, argEmails, IgnorePrivateIPs, IgnoredDomains, IgnoredEmails>>

GetMatchesCall(k) ==
    /\ pc = "ready"
    /\ pc' = "GetMatches"
    /\ kindArg' = k
    /\ matches' = GetMatches(text, k, Expressions[k])
    /\ UNCHANGED <<checks, text, results, urlRanges, todo, domainArg, ignoredRet>>

ExtractAllCall(order) ==
    /\ pc = "ready"
    /\ pc' = "ExtractAll"
    /\ results' = ExtractAllIn(text, order)
    /\ urlRanges' = UrlPass(text).urlRanges
    /\ UNCHANGED <<checks, text, kindArg, matches, todo, domainArg, ignoredRet>>

Next ==
    \/ \E k \in Kinds : GetMatchesCall(k)
    \/ \E order \in KindOrders : ExtractAllCall(order)

Spec == Init /\ [][Next]_vars

(***************************************************************************)
(* ExtractAll with the range loop's iterations as steps of their own, the  *)
(* kinds visited in any order (Go leaves the order of a map's range        *)
(* unspecified).                                                           *)
(***************************************************************************)
MaxOrderWords == 1

OrderWords ==
    { Chars("http://a.b.com/p,"),
      Chars("c.b.com"),
      Chars("X@b.com"),
      Chars("10.0.0.1"),
      Chars("ftp.d/q"),
      Chars("d41d8cd98f00b204e9800998ecf8427e") }

OrderTexts == {Join(ws) : ws \in UNION {[1..n -> OrderWords] : n \in 0..MaxOrderWords}}

InitOrder ==
    /\ Constructed({FALSE}, {<<>>}, {<<>>})
    /\ text \in OrderTexts
    /\ domainArg = <<>>

ExtractAllUrls ==
    /\ pc = "ready"
    /\ pc' = "range"
    /\ results' = UrlPass(text).results
    /\ urlRanges' = UrlPass(text).urlRanges
    /\ todo' = Kinds \ {"url"}
    /\ UNCHANGED <<checks, text, kindArg, matches, domainArg, ignoredRet>>

ExtractAllKind(k) ==
    /\ pc = "range"
    /\ k \in todo
    /\ results' = KindPass(text, k, results, urlRanges)
    /\ todo' = todo \ {k}
    /\ pc' = IF todo' = {} THEN "ExtractAll" ELSE "range"
    /\ UNCHANGED <<checks, text, kindArg, matches, urlRanges, domainArg, ignoredRet>>

NextOrder ==
    \/ ExtractAllUrls
    \/ \E k \in Kinds : ExtractAllKind(k)

SpecOrder == InitOrder /\ [][NextOrder]_vars

(***************************************************************************)
(* The domain-ignore check on its own: a Contextualizer is constructed     *)
(* with an ignore list and isDomainIgnored is called on a domain string.   *)
(***************************************************************************)
MaxDomainLen == 5

DomainAlphabet == {"a", "A", "b", "."}

DomainStrings == UNION {[1..n -> DomainAlphabet] : n \in 0..MaxDomainLen}

IgnoreLists ==
    { <<>>, <<Chars("A.b")>>, <<Chars(".B")>>, <<Chars("b.a"), Chars(".")>> }

InitIgnore ==
    /\ Constructed({FALSE}, IgnoreLists, {<<>>})
    /\ text = <<>>
    /\ domainArg \in DomainStrings

IsDomainIgnoredCall ==
    /\ pc = "ready"
    /\ pc' = "isDomainIgnored"
    /\ ignoredRet' = isDomainIgnored(domainArg)
    /\ UNCHANGED <<checks, text, kindArg, matches, results, urlRanges, todo, domainArg>>

NextIgnore == IsDomainIgnoredCall

SpecIgnore == InitIgnore /\ [][NextIgnore]_vars

(***************************************************************************)
(* Properties.                                                             *)
(***************************************************************************)
\* the values of a sequence of matches, lower-cased, in order
FoldedValues(ms) == [n \in 1..Len(ms) |-> ToLower(ms[n].Value)]

\* the elements of a sequence, as a set
Range(q) == {q[n] : n \in 1..Len(q)}

\* d itself and what is left of d after each "." of it
LabelSuffixes(d) == {d} \cup {SubSeq(d, i + 1, Len(d)) : i \in IndexSet(d, ".")}

\* C2: isDomainIgnored(d) is true exactly when, d lower-cased and without one
\* trailing ".", d itself or a remainder of d after one of its "." equals the
\* lower-cased form of an entry of the configured list (the entry without one
\* leading "."): a case-insensitive, label-aligned suffix match.
IgnoreIsLabelSuffixMatch ==
    pc = "isDomainIgnored" =>
        (ignoredRet <=>
            \E n \in 1..Len(argDomains) :
                ToLower(TrimPrefix(argDomains[n], <<".">>))
                    \in LabelSuffixes(TrimSuffix(ToLower(domainArg), <<".">>)))

\* C2's case: a subdomain written in another letter case is ignored
IgnoreIsLabelSuffixMatchWitness ==
    /\ pc = "isDomainIgnored"
    /\ ignoredRet
    /\ argDomains = <<Chars("A.b")>>
    /\ domainArg = Chars("b.A.b")

\* C8: every order of the range loop ends with the results the table's own
\* order gives, key by key and element by element, and no step changes the
\* ignore sets or the flag.
OrderIndependent ==
    /\ [](pc = "ExtractAll" => results = ExtractAllIn(text, KindOrder))
    /\ [][checks' = checks]_vars

\* C8's case: a text with a URL, a domain and its base domain, extracted with
\* "filename" the last kind visited
OrderIndependentWitness ==
    /\ pc = "ExtractAll"
    /\ results["base_domain"] # <<>>
    /\ results["filename"] # <<>>
    /\ results["domain"] # <<>>

\* what the operation that ran returned: the matches of the slice, or of
\* every sequence of the map
Returned ==
    IF pc = "GetMatches" THEN Range(matches)
    ELSE IF pc = "ExtractAll" THEN UNION {Range(results[k]) : k \in ResultKeys}
    ELSE {}

\* the occurrences of a kind's pattern in the text, as offset pairs
Occurrences(k) == Range(FindAllStringIndex(Expressions[k], text))

Inside(idx, block) == idx[1] >= block[1] /\ idx[2] <= block[2]

\* the host of a URL value parses and is ignored
HostIgnored(v) ==
    LET u == Parse(v) IN u.ok /\ isDomainIgnored(Hostname(u.host))

\* C1: no returned match is material a rule suppresses: no domain or
\* base_domain whose value is ignored, no email whose lower-cased value is in
\* ignoredEmails or whose part after "@" is ignored, no url whose hostname
\* parses and is ignored.
NoSuppressedMaterial ==
    \A m \in Returned :
        /\ m.Type \in {"domain", "base_domain"} => ~isDomainIgnored(m.Value)
        /\ m.Type = "email" =>
              /\ ToLower(m.Value) \notin IgnoredEmails
              /\ ~isDomainIgnored(After(m.Value, "@"))
        /\ m.Type = "url" => ~HostIgnored(m.Value)

\* C1's case: ExtractAll ran with an ignored domain on a text that holds an
\* address on that domain and a domain that is not ignored: the address is
\* not returned, the domain is
NoSuppressedMaterialWitness ==
    /\ pc = "ExtractAll"
    /\ IgnoredDomains = {Chars("b.com")}
    /\ IgnoredEmails = {}
    /\ text = Chars("X@b.com co.uk")
    /\ results["email"] = <<>>
    /\ results["domain"] = <<Match(Chars("co.uk"), "domain")>>

\* every match reported under a kind other than url comes from an occurrence
\* that does not lie inside one of the blocks
ReportedOutside(blocks) ==
    \A k \in Kinds \ {"url"} :
        \A m \in Range(results[k]) :
            \E idx \in Occurrences(k) :
                /\ ToLower(Slice(text, idx)) = ToLower(m.Value)
                /\ \A b \in blocks : ~Inside(idx, b)

\* C3: in ExtractAll, nothing of another kind is reported from inside an
\* occurrence, first or repeated, of a URL that is reported under "url".
UrlContentsNotReported ==
    pc = "ExtractAll" =>
        ReportedOutside({idx \in Occurrences("url") :
            ToLower(TrimUrl(Slice(text, idx))) \in Range(FoldedValues(results["url"]))})

NoDuplicates(ms) ==
    \A i, j \in 1..Len(ms) :
        i < j => ~(ms[i].Type = ms[j].Type /\ ToLower(ms[i].Value) = ToLower(ms[j].Value))

\* C4: no returned sequence holds two matches of one type with the same
\* lower-cased value, base_domain matches included.
NoDuplicateMatches ==
    /\ pc = "GetMatches" => NoDuplicates(matches)
    /\ pc = "ExtractAll" => \A k \in ResultKeys : NoDuplicates(results[k])

\* s without its trailing characters of the cutset
TrimTrailing(s) == SubSeq(s, 1, Max({0} \cup {i \in 1..Len(s) : s[i] \notin UrlCutset}))

\* the elements of q at the positions of S from n on, in order
RECURSIVE PickFrom(_, _, _)
PickFrom(q, n, S) ==
    IF n > Len(q) THEN <<>>
    ELSE (IF n \in S THEN <<q[n]>> ELSE <<>>) \o PickFrom(q, n + 1, S)

\* the URL occurrences left to right, trimmed, those with an ignored host
\* dropped, the first of each lower-cased value kept
UrlReference ==
    LET occ  == FindAllString(Expressions["url"], text)
        cand == [n \in 1..Len(occ) |-> Match(TrimTrailing(occ[n]), "url")]
        live == {n \in 1..Len(cand) : ~HostIgnored(cand[n].Value)}
        keep == {n \in live :
                    \A j \in live : j < n => ToLower(cand[j].Value) # ToLower(cand[n].Value)}
    IN  PickFrom(cand, 1, keep)

\* C5: the "url" sequence of ExtractAll is the reference result, each value
\* in its source casing and ending with none of the five trimmed characters.
UrlsAreReference ==
    pc = "ExtractAll" =>
        /\ results["url"] = UrlReference
        /\ \A m \in Range(results["url"]) :
              m.Value # <<>> /\ m.Value[Len(m.Value)] \notin UrlCutset

\* C5's case: two occurrences that differ in case and in a trailing comma
\* give one match, the first, trimmed
UrlsAreReferenceWitness ==
    /\ pc = "ExtractAll"
    /\ text = Chars("http://a.b.com/p, HTTP://a.b.com/P")
    /\ results["url"] = <<Match(Chars("http://a.b.com/p"), "url")>>

\* the base domains the candidates D call for
ExpectedBases(D) ==
    {EffectiveTLDPlusOne(d).value : d \in
        {d \in D : /\ ~isDomainIgnored(d)
                   /\ EffectiveTLDPlusOne(d).ok
                   /\ EffectiveTLDPlusOne(d).value # <<>>
                   /\ EffectiveTLDPlusOne(d).value # d
                   /\ ~isDomainIgnored(EffectiveTLDPlusOne(d).value)}}

\* the domain matches are the candidates of D that are not ignored, and the
\* base_domain matches are the base domains D calls for
BaseDomainLaw(D, domains, bases) ==
    /\ Range(FoldedValues(domains)) = {d \in D : ~isDomainIgnored(d)}
    /\ {m.Value : m \in Range(bases)} = ExpectedBases(D)

OfType(ms, type) == LET Is(m) == m.Type = type IN SelectSeq(ms, Is)

\* the lower-cased values of a kind's occurrences, and of those that do not
\* lie inside a claimed range
Candidates(k) == {ToLower(Slice(text, idx)) : idx \in Occurrences(k)}
UnclaimedCandidates(k) ==
    {ToLower(Slice(text, idx)) : idx \in {i \in Occurrences(k) : ~isInsideUrl(i, urlRanges)}}

\* C6 as stated: every domain candidate that is not ignored gets its domain
\* match from GetMatches and from ExtractAll, and a base_domain match exactly
\* when the lookup gives a non-empty, different, not ignored base domain.
BaseDomainSynthesisEveryCandidate ==
    /\ pc = "GetMatches" /\ kindArg = "domain" =>
          BaseDomainLaw(Candidates("domain"), OfType(matches, "domain"),
                        OfType(matches, "base_domain"))
    /\ pc = "ExtractAll" =>
          BaseDomainLaw(Candidates("domain"), results["domain"], results["base_domain"])

\* C6 as amended: in ExtractAll the candidates are the occurrences that do
\* not lie inside a claimed URL range.
BaseDomainSynthesis ==
    /\ pc = "GetMatches" /\ kindArg = "domain" =>
          BaseDomainLaw(Candidates("domain"), OfType(matches, "domain"),
                        OfType(matches, "base_domain"))
    /\ pc = "ExtractAll" =>
          BaseDomainLaw(UnclaimedCandidates("domain"), results["domain"],
                        results["base_domain"])

\* C6's case: a subdomain gives a domain and a base_domain match, and a name
\* whose lookup fails (a public suffix) still gives its domain match
BaseDomainSynthesisWitness ==
    /\ pc = "ExtractAll"
    /\ text = Chars("c.b.com co.uk")
    /\ IgnoredDomains = {}
    /\ results["domain"] = <<Match(Chars("c.b.com"), "domain"), Match(Chars("co.uk"), "domain")>>
    /\ results["base_domain"] = <<Match(Chars("b.com"), "base_domain")>>

\* the literal parses and is private, loopback or link-local
ClassifiedPrivate(v) ==
    /\ ParseIP(v) # <<>>
    /\ IsPrivate(ParseIP(v)) \/ IsLoopback(ParseIP(v)) \/ IsLinkLocalUnicast(ParseIP(v))

\* the ipv4 matches are the candidates of C the rule does not drop, each once
PrivateIpLaw(C, ips) ==
    /\ \A i, j \in 1..Len(ips) : i < j => ips[i] # ips[j]
    /\ \A m \in Range(ips) : m.Type = "ipv4"
    /\ {m.Value : m \in Range(ips)} = {v \in C : ~(IgnorePrivateIPs /\ ClassifiedPrivate(v))}

\* C7 as stated: GetMatches and ExtractAll drop an ipv4 candidate exactly
\* when the flag is set and the literal parses and is private, loopback or
\* link-local; every other literal is returned once.
PrivateIpFailOpenEveryCandidate ==
    /\ pc = "GetMatches" /\ kindArg = "ipv4" => PrivateIpLaw(Candidates("ipv4"), matches)
    /\ pc = "ExtractAll" => PrivateIpLaw(Candidates("ipv4"), results["ipv4"])

\* C7 as amended: in ExtractAll the candidates are the occurrences that do
\* not lie inside a claimed URL range.
PrivateIpFailOpen ==
    /\ pc = "GetMatches" /\ kindArg = "ipv4" => PrivateIpLaw(Candidates("ipv4"), matches)
    /\ pc = "ExtractAll" => PrivateIpLaw(UnclaimedCandidates("ipv4"), results["ipv4"])

\* C7's case: with the flag set a link-local literal is dropped and a literal
\* that does not parse is returned
PrivateIpFailOpenWitness ==
    /\ pc = "ExtractAll"
    /\ IgnorePrivateIPs
    /\ text = Chars("169.254.0.1,10.0.0.999")
    /\ results["ipv4"] = <<Match(Chars("10.0.0.999"), "ipv4")>>

\* C9: on a text without a URL occurrence ExtractAll reports, kind by kind,
\* the values GetMatches returns for the kind, in order, letter case aside.
SameFiltersAsGetMatches ==
    pc = "ExtractAll" /\ Occurrences("url") = {} =>
        \A k \in Kinds \ {"url"} :
            /\ FoldedValues(results[k]) =
                  FoldedValues(OfType(GetMatches(text, k, Expressions[k]), k))
            /\ k = "domain" =>
                  FoldedValues(results["base_domain"]) =
                      FoldedValues(OfType(GetMatches(text, k, Expressions[k]), "base_domain"))

\* C10: in ExtractAll, nothing is reported from inside an occurrence of a URL
\* that was dropped for its ignored hostname.
IgnoredUrlContentsNotReported ==
    pc = "ExtractAll" =>
        ReportedOutside({idx \in Occurrences("url") :
            UrlIgnored(ToLower(TrimUrl(Slice(text, idx))))})

====
